---- MODULE Spec2Model ----
(***************************************************************************)
(* Model of src/src/lib.rs: regexp_extract (the per-column extraction) and *)
(* the closure built by create_regexp_extract (the DataFusion adapter).    *)
(*                                                                         *)
(* Text is a sequence of one-character strings.  Option<T> is a record     *)
(* [some, v].  The regex crate is modelled for the syntax the model's      *)
(* patterns use: literals, capture groups, and the repetitions ? and +     *)
(* (greedy and lazy), compiled to a Thompson program and run with          *)
(* leftmost-first priority.                                                *)
(***************************************************************************)
EXTENDS Integers, Sequences, FiniteSets, TLC

(***************************************************************************)
(* Bounds of the model.                                                    *)
(***************************************************************************)
MaxPatLen == 3
MaxRows == 2

----------------------------------------------------------------------------
(* Option<T> *)
None == [some |-> FALSE, v |-> <<>>]
Some(x) == [some |-> TRUE, v |-> x]

(* Result<T, DataFusionError> and a panic (an index out of the slice). *)
Ok(x) == [kind |-> "Ok", v |-> x]
Err(m) == [kind |-> "Err", v |-> m]
Panic == [kind |-> "Panic", v |-> "index out of bounds"]
NoOutcome == [kind |-> "None", v |-> ""]

----------------------------------------------------------------------------
(***************************************************************************)
(* Regex::new: parse the pattern text and compile it.                      *)
(*   program: Char c | Split x y (relative targets, x preferred) |         *)
(*            Save n | Match                                               *)
(*   slots 2k+1, 2k+2 hold the start and end of group k (group 0 is the    *)
(*   whole match); positions are 1-based indices of the next character.    *)
(***************************************************************************)
Meta == {"(", ")", "?", "+"}

IChar(c) == [op |-> "Char", c |-> c, x |-> 0, y |-> 0, n |-> 0]
ISplit(x, y) == [op |-> "Split", c |-> "", x |-> x, y |-> y, n |-> 0]
ISave(n) == [op |-> "Save", c |-> "", x |-> 0, y |-> 0, n |-> n]
IMatch == [op |-> "Match", c |-> "", x |-> 0, y |-> 0, n |-> 0]

CompileOk(prog, ng) == [ok |-> TRUE, prog |-> prog, ngroups |-> ng, err |-> ""]
CompileErr(m) == [ok |-> FALSE, prog |-> <<>>, ngroups |-> 0, err |-> m]

(* `x?` wraps the atom starting at `last`: a Split goes in front of it. *)
WrapOptional(prog, last, lazy) ==
    LET body == Len(prog) - last + 1
        sp == IF lazy THEN ISplit(body + 1, 1) ELSE ISplit(1, body + 1)
    IN SubSeq(prog, 1, last - 1) \o <<sp>> \o SubSeq(prog, last, Len(prog))

(* `x+` loops back to the atom starting at `last`: a Split follows it. *)
WrapPlus(prog, last, lazy) ==
    LET back == last - (Len(prog) + 1)
    IN Append(prog, IF lazy THEN ISplit(1, back) ELSE ISplit(back, 1))

(* An opening parenthesis followed by ? starts a flag or a non-capturing
   group; no character of the model's alphabet is a flag. *)
FlagError(p, i) ==
    IF i + 1 = Len(p) THEN "unexpected EOF in flags"
    ELSE IF p[i + 2] = ")" THEN "repetition operator missing expression"
    ELSE "unrecognized flag"

RECURSIVE ParseFrom(_, _, _, _, _, _)
ParseFrom(p, i, prog, last, stack, ng) ==
    IF i > Len(p)
    THEN IF stack # <<>> THEN CompileErr("unclosed group")
         ELSE CompileOk(Append(prog, IMatch), ng)
    ELSE
    LET t == p[i] IN
    CASE t = "(" ->
           IF i < Len(p) /\ p[i + 1] = "?"
           THEN CompileErr(FlagError(p, i))
           ELSE ParseFrom(p, i + 1, Append(prog, ISave(2 * (ng + 1) + 1)), 0,
                          Append(stack, [start |-> Len(prog) + 1, k |-> ng + 1]),
                          ng + 1)
      [] t = ")" ->
           IF stack = <<>> THEN CompileErr("unopened group")
           ELSE LET top == stack[Len(stack)]
                IN ParseFrom(p, i + 1, Append(prog, ISave(2 * top.k + 2)),
                             top.start, SubSeq(stack, 1, Len(stack) - 1), ng)
      [] t \in {"?", "+"} ->
           IF last = 0
           THEN CompileErr("repetition operator missing expression")
           ELSE LET lazy == i < Len(p) /\ p[i + 1] = "?"
                    next == IF lazy THEN i + 2 ELSE i + 1
                    code == IF t = "?" THEN WrapOptional(prog, last, lazy)
                            ELSE WrapPlus(prog, last, lazy)
                IN ParseFrom(p, next, code, last, stack, ng)
      [] OTHER ->
           ParseFrom(p, i + 1, Append(prog, IChar(t)), Len(prog) + 1, stack, ng)

(* The whole pattern is group 0: Save 1 ... Save 2 around it. *)
RegexNew(p) ==
    LET r == ParseFrom(p, 1, <<ISave(1)>>, 0, <<>>, 0)
    IN IF r.ok
       THEN CompileOk(SubSeq(r.prog, 1, Len(r.prog) - 1) \o <<ISave(2), IMatch>>,
                      r.ngroups)
       ELSE r

----------------------------------------------------------------------------
(***************************************************************************)
(* Regex::captures: the leftmost match, alternatives tried in priority     *)
(* order.  `seen` holds the instructions already entered at this position  *)
(* on the current path: an empty iteration of a loop is not repeated.      *)
(***************************************************************************)
NoMatch == <<>>
Unset == 0
EmptySlots(ng) == [n \in 1..(2 * ng + 2) |-> Unset]

RECURSIVE Exec(_, _, _, _, _, _)
Exec(prog, text, ip, pos, slots, seen) ==
    IF ip \in seen THEN NoMatch
    ELSE
    LET ins == prog[ip] IN
    CASE ins.op = "Match" -> slots
      [] ins.op = "Char" ->
           IF pos <= Len(text) /\ text[pos] = ins.c
           THEN Exec(prog, text, ip + 1, pos + 1, slots, {})
           ELSE NoMatch
      [] ins.op = "Save" ->
           Exec(prog, text, ip + 1, pos, [slots EXCEPT ![ins.n] = pos],
                seen \cup {ip})
      [] ins.op = "Split" ->
           LET first == Exec(prog, text, ip + ins.x, pos, slots, seen \cup {ip})
           IN IF first # NoMatch THEN first
              ELSE Exec(prog, text, ip + ins.y, pos, slots, seen \cup {ip})

RECURSIVE SearchFrom(_, _, _)
SearchFrom(re, text, start) ==
    IF start > Len(text) + 1 THEN NoMatch
    ELSE LET r == Exec(re.prog, text, 1, start, EmptySlots(re.ngroups), {})
         IN IF r # NoMatch THEN r ELSE SearchFrom(re, text, start + 1)

(* re.captures(data): Option<Captures> *)
captures(re, data) ==
    LET slots == SearchFrom(re, data, 1)
    IN IF slots = NoMatch THEN None
       ELSE Some([text |-> data, slots |-> slots, ngroups |-> re.ngroups])

(* A variant that clamps the index to the last group. *)
CapturesGetClamped(caps, i) ==
    LET j == IF i > caps.ngroups THEN caps.ngroups ELSE i
    IN IF caps.slots[2 * j + 1] = Unset \/ caps.slots[2 * j + 2] = Unset THEN None
       ELSE Some([start |-> caps.slots[2 * j + 1], end |-> caps.slots[2 * j + 2],
                  text |-> caps.text])

(* captures.get(i): None when i names no group of the pattern or the group
   did not take part in the match. *)
CapturesGet(caps, i) ==
    IF i > caps.ngroups THEN None
    ELSE IF caps.slots[2 * i + 1] = Unset \/ caps.slots[2 * i + 2] = Unset THEN None
    ELSE Some([start |-> caps.slots[2 * i + 1], end |-> caps.slots[2 * i + 2],
               text |-> caps.text])

(* m.as_str().to_string() *)
MatchAsStr(m) == SubSeq(m.text, m.start, m.end - 1)

----------------------------------------------------------------------------
(***************************************************************************)
(* regexp_extract, one row: the closure passed to input.iter().map().      *)
(***************************************************************************)
(* Variants of the row closure, each with one slip. *)
ExtractRowNullOnNoMatch(re, optional_data, group_index) ==
    IF ~optional_data.some THEN None
    ELSE LET caps == captures(re, optional_data.v)
             m == IF caps.some THEN CapturesGet(caps.v, group_index) ELSE None
         IN IF ~caps.some THEN None
            ELSE Some(IF m.some THEN MatchAsStr(m.v) ELSE <<>>)

ExtractRowDataOnNoMatch(re, optional_data, group_index) ==
    IF ~optional_data.some THEN None
    ELSE LET caps == captures(re, optional_data.v)
             m == IF caps.some THEN CapturesGet(caps.v, group_index) ELSE None
         IN IF ~caps.some THEN Some(optional_data.v)
            ELSE Some(IF m.some THEN MatchAsStr(m.v) ELSE <<>>)

ExtractRowWholeMatch(re, optional_data, group_index) ==
    IF ~optional_data.some THEN None
    ELSE LET caps == captures(re, optional_data.v)
             m == IF caps.some THEN CapturesGet(caps.v, 0) ELSE None
         IN Some(IF m.some THEN MatchAsStr(m.v) ELSE <<>>)

ExtractRowWholeOnMissingGroup(re, optional_data, group_index) ==
    IF ~optional_data.some THEN None
    ELSE LET caps == captures(re, optional_data.v)
             m == IF caps.some THEN CapturesGet(caps.v, group_index) ELSE None
             whole == IF caps.some THEN CapturesGet(caps.v, 0) ELSE None
         IN Some(IF m.some THEN MatchAsStr(m.v)
                 ELSE IF whole.some /\ group_index <= caps.v.ngroups
                      THEN MatchAsStr(whole.v) ELSE <<>>)

ExtractRow(re, optional_data, group_index) ==
    IF ~optional_data.some THEN None
    ELSE LET caps == captures(re, optional_data.v)
             m == IF caps.some THEN CapturesGet(caps.v, group_index) ELSE None
             s == IF m.some THEN Some(MatchAsStr(m.v)) ELSE None
         IN Some(IF s.some THEN s.v ELSE <<>>)

(* regexp_extract as a function of its three arguments. *)
regexp_extract(input, pattern, group_index) ==
    LET re == RegexNew(pattern)
    IN IF ~re.ok THEN Err(re.err)
       ELSE Ok([i \in 1..Len(input) |-> ExtractRow(re, input[i], group_index)])

----------------------------------------------------------------------------
(***************************************************************************)
(* ColumnarValue: Array(array of a type) or Scalar(ScalarValue).           *)
(***************************************************************************)
ArrayValue(type, val) == [kind |-> "Array", type |-> type, val |-> val]
ScalarValue(type, val) == [kind |-> "Scalar", type |-> type, val |-> val]

(* ColumnarValue::Array(arr) with arr a StringArray *)
IsStringArray(a) == a.kind = "Array" /\ a.type = "Utf8"
(* ColumnarValue::Scalar(ScalarValue::Utf8(Some(s))) *)
IsPatternString(a) == a.kind = "Scalar" /\ a.type = "Utf8" /\ a.val.some
(* ColumnarValue::Scalar(ScalarValue::UInt32(Some(i))) *)
IsUInt32(a) == a.kind = "Scalar" /\ a.type = "UInt32" /\ a.val.some

(* The closure `fun` as a function of its argument slice. *)
fun(a) ==
    IF Len(a) < 1 THEN Panic
    ELSE IF ~IsStringArray(a[1]) THEN Err("Expected StringArray")
    ELSE IF Len(a) < 2 THEN Panic
    ELSE IF ~IsPatternString(a[2]) THEN Err("Expected pattern string")
    ELSE IF Len(a) < 3 THEN Panic
    ELSE IF ~IsUInt32(a[3]) THEN Err("Expected UInt32")
    ELSE regexp_extract(a[1].val, a[2].val.v, a[3].val.v)

----------------------------------------------------------------------------
(***************************************************************************)
(* The inputs of the model.                                                *)
(***************************************************************************)
SeqsUpTo(S, n) == UNION {[1..k -> S] : k \in 0..n}

PatAlphabet == {"a", "1", "(", ")", "?", "+"}
ShortPatterns == SeqsUpTo(PatAlphabet, MaxPatLen)
(* The tests' patterns, with a for a letter and 1 for a digit. *)
PatLettersDigits == <<"(", "a", "+", ")", "(", "1", "+", ")">>
PatOptionalGroups == <<"(", "a", "+", ")", "?", "(", "1", "+", ")", "?">>
PatMissingOptional == <<"(", "a", "+", ")", "(", "1", ")", "?", "(", "a", ")">>
PatDigits == <<"(", "1", "+", ")">>
PatWord == <<"(", "a", "+", ")">>
TestPatterns ==
    {PatLettersDigits, PatOptionalGroups, PatMissingOptional, PatDigits, PatWord}
Patterns == ShortPatterns \cup TestPatterns

Texts == {<<>>, <<"a">>, <<"1">>, <<"a", "1">>, <<"1", "a">>, <<"a", "a", "a">>}
Cells == {None} \cup {Some(t) : t \in Texts}
Columns == SeqsUpTo(Cells, MaxRows)
ColBasic == <<Some(<<"a", "a", "1", "1">>), Some(<<"a", "1">>), None>>
ColOptional == <<Some(<<"a", "1">>), Some(<<"a">>), Some(<<"1">>)>>
ColMixed == <<Some(<<"1", "a", "a">>), None, Some(<<>>)>>
ColEmpty == <<>>
ColNulls == <<None, None>>
TestColumns == {ColBasic, ColOptional, ColMixed, ColEmpty, ColNulls}

GroupIndexes == {0, 1, 2, 3, 99}

StringArrayArg(col) == ArrayValue("Utf8", col)
PatternArg(p) == ScalarValue("Utf8", Some(p))
UInt32Arg(i) == ScalarValue("UInt32", Some(i))

(* Calls the host's signature admits. *)
ValidCalls ==
    {<<StringArrayArg(pc[2]), PatternArg(pc[1]), UInt32Arg(g)>> :
        pc \in (Patterns \X TestColumns) \cup (TestPatterns \X Columns),
        g \in GroupIndexes}

(* Argument slices with a wrong kind or type at some position, and slices of
   another length than 3. *)
SampleArg0 ==
    {StringArrayArg(ColBasic), ArrayValue("Int64", <<>>),
     ScalarValue("Utf8", Some(<<"a">>))}
SampleArg1 ==
    {PatternArg(PatWord), PatternArg(<<"(">>), ScalarValue("Utf8", None),
     ScalarValue("Int64", Some(1)), ArrayValue("Utf8", <<Some(<<"a">>)>>)}
SampleArg2 ==
    {UInt32Arg(1), ScalarValue("UInt32", None), ScalarValue("Int64", Some(1)),
     ArrayValue("UInt32", <<>>)}
MixedCalls == {<<a, b, c>> : a \in SampleArg0, b \in SampleArg1, c \in SampleArg2}
ShortCalls == {SubSeq(a, 1, n) : a \in MixedCalls, n \in 0..2}
LongCalls == {Append(a, UInt32Arg(0)) : a \in MixedCalls}
ArgLists == ValidCalls \cup MixedCalls \cup ShortCalls \cup LongCalls

(* The calls that run side by side. *)
ConcCalls ==
    {<<StringArrayArg(c), PatternArg(p), UInt32Arg(g)>> :
        c \in {ColOptional, <<>>}, p \in {PatOptionalGroups, <<"(">>},
        g \in {1, 2}}
    \cup {<<StringArrayArg(ColBasic), ScalarValue("Utf8", None), UInt32Arg(1)>>}

----------------------------------------------------------------------------
(***************************************************************************)
(* State: per call w, the argument slice, the closure's locals (input,     *)
(* pattern, group_index), regexp_extract's locals (re, array), the place   *)
(* in the code, the outcome, and the outcome of the previous run with the  *)
(* same arguments.  iter is the position of input.iter(): the number of    *)
(* rows taken from the input so far.  A local keeps its last value after   *)
(* the call returns; the next run assigns it before reading it.            *)
(***************************************************************************)
VARIABLES args, pc, input, pattern, group_index, re, iter, array, outcome, prev

vars == <<args, pc, input, pattern, group_index, re, iter, array, outcome, prev>>

NoRegex == CompileErr("")
(* A variant that reuses the buffer of the previous call. *)
NewArrayReused(w) == array[w]
(* collect() builds a new array for each call. *)
NewArray(w) == <<>>
(* A variant that reads the pattern from one slot shared by all calls. *)
PatternOfShared(w) == pattern[1]
(* The pattern the call compiles is its own argument. *)
PatternOf(w) == pattern[w]

Start(W, choices) ==
    /\ args \in [W -> choices]
    /\ pc = [w \in W |-> "arg0"]
    /\ input = [w \in W |-> <<>>]
    /\ pattern = [w \in W |-> <<>>]
    /\ group_index = [w \in W |-> 0]
    /\ re = [w \in W |-> NoRegex]
    /\ iter = [w \in W |-> 0]
    /\ array = [w \in W |-> <<>>]
    /\ outcome = [w \in W |-> NoOutcome]
    /\ prev = [w \in W |-> NoOutcome]

Init == Start({1}, ArgLists)
InitConc == Start({1, 2}, ConcCalls)

Return(w, r) ==
    /\ outcome' = [outcome EXCEPT ![w] = r]
    /\ pc' = [pc EXCEPT ![w] = "done"]

(* A variant that looks at the pattern argument first. *)
MatchArg0PatternFirst(w) ==
    /\ pc[w] = "arg0"
    /\ IF Len(args[w]) < 1
       THEN Return(w, Panic) /\ UNCHANGED input
       ELSE IF Len(args[w]) >= 2 /\ ~IsPatternString(args[w][2])
       THEN Return(w, Err("Expected pattern string")) /\ UNCHANGED input
       ELSE IF IsStringArray(args[w][1])
       THEN /\ input' = [input EXCEPT ![w] = args[w][1].val]
            /\ pc' = [pc EXCEPT ![w] = "arg1"]
            /\ UNCHANGED outcome
       ELSE Return(w, Err("Expected StringArray")) /\ UNCHANGED input
    /\ UNCHANGED <<args, pattern, group_index, re, iter, array, prev>>

(* let input = match &args[0] { ... } *)
MatchArg0(w) ==
    /\ pc[w] = "arg0"
    /\ IF Len(args[w]) < 1
       THEN Return(w, Panic) /\ UNCHANGED input
       ELSE IF IsStringArray(args[w][1])
       THEN /\ input' = [input EXCEPT ![w] = args[w][1].val]
            /\ pc' = [pc EXCEPT ![w] = "arg1"]
            /\ UNCHANGED outcome
       ELSE Return(w, Err("Expected StringArray")) /\ UNCHANGED input
    /\ UNCHANGED <<args, pattern, group_index, re, iter, array, prev>>

(* let pattern = match &args[1] { ... } *)
MatchArg1(w) ==
    /\ pc[w] = "arg1"
    /\ IF Len(args[w]) < 2
       THEN Return(w, Panic) /\ UNCHANGED pattern
       ELSE IF IsPatternString(args[w][2])
       THEN /\ pattern' = [pattern EXCEPT ![w] = args[w][2].val.v]
            /\ pc' = [pc EXCEPT ![w] = "arg2"]
            /\ UNCHANGED outcome
       ELSE Return(w, Err("Expected pattern string")) /\ UNCHANGED pattern
    /\ UNCHANGED <<args, input, group_index, re, iter, array, prev>>

(* let group_index = match &args[2] { ... } *)
MatchArg2(w) ==
    /\ pc[w] = "arg2"
    /\ IF Len(args[w]) < 3
       THEN Return(w, Panic) /\ UNCHANGED group_index
       ELSE IF IsUInt32(args[w][3])
       THEN /\ group_index' = [group_index EXCEPT ![w] = args[w][3].val.v]
            /\ pc' = [pc EXCEPT ![w] = "compile"]
            /\ UNCHANGED outcome
       ELSE Return(w, Err("Expected UInt32")) /\ UNCHANGED group_index
    /\ UNCHANGED <<args, input, pattern, re, iter, array, prev>>

(* A variant that falls back to the empty pattern when the pattern does not
   compile. *)
CompileOrEmpty(w) ==
    /\ pc[w] = "compile"
    /\ LET r == RegexNew(PatternOf(w))
       IN /\ re' = [re EXCEPT ![w] = IF r.ok THEN r ELSE RegexNew(<<>>)]
          /\ iter' = [iter EXCEPT ![w] = 0]
          /\ array' = [array EXCEPT ![w] = NewArray(w)]
          /\ pc' = [pc EXCEPT ![w] = "rows"]
          /\ UNCHANGED outcome
    /\ UNCHANGED <<args, input, pattern, group_index, prev>>

(* let re = Regex::new(pattern).map_err(...)?; *)
Compile(w) ==
    /\ pc[w] = "compile"
    /\ LET r == RegexNew(PatternOf(w))
       IN IF r.ok
          THEN /\ re' = [re EXCEPT ![w] = r]
               /\ iter' = [iter EXCEPT ![w] = 0]
               /\ array' = [array EXCEPT ![w] = NewArray(w)]
               /\ pc' = [pc EXCEPT ![w] = "rows"]
               /\ UNCHANGED outcome
          ELSE Return(w, Err(r.err)) /\ UNCHANGED <<re, iter, array>>
    /\ UNCHANGED <<args, input, pattern, group_index, prev>>

(* One step of input.iter().map(...): the next row. *)
ProcessRow(w) ==
    /\ pc[w] = "rows"
    /\ iter[w] < Len(input[w])
    /\ iter' = [iter EXCEPT ![w] = @ + 1]
    /\ array' = [array EXCEPT ![w] =
           Append(@, ExtractRow(re[w], input[w][iter[w] + 1], group_index[w]))]
    /\ UNCHANGED <<args, pc, input, pattern, group_index, re, outcome, prev>>

(* .collect(); Ok(Arc::new(array)) *)
Collect(w) ==
    /\ pc[w] = "rows"
    /\ iter[w] = Len(input[w])
    /\ Return(w, Ok(array[w]))
    /\ UNCHANGED <<args, input, pattern, group_index, re, iter, array, prev>>

(* The host calls the function again with the same arguments. *)
Rerun(w) ==
    /\ pc[w] = "done"
    /\ prev[w] = NoOutcome
    /\ prev' = [prev EXCEPT ![w] = outcome[w]]
    /\ pc' = [pc EXCEPT ![w] = "arg0"]
    /\ outcome' = [outcome EXCEPT ![w] = NoOutcome]
    /\ UNCHANGED <<args, input, pattern, group_index, re, iter, array>>

Next ==
    \/ \E w \in DOMAIN pc : MatchArg0(w)
    \/ \E w \in DOMAIN pc : MatchArg1(w)
    \/ \E w \in DOMAIN pc : MatchArg2(w)
    \/ \E w \in DOMAIN pc : Compile(w)
    \/ \E w \in DOMAIN pc : ProcessRow(w)
    \/ \E w \in DOMAIN pc : Collect(w)
    \/ \E w \in DOMAIN pc : Rerun(w)

Spec == Init /\ [][Next]_vars
SpecConc == InitConc /\ [][Next]_vars

----------------------------------------------------------------------------
(***************************************************************************)
(* What the properties speak of, stated without the operators above:       *)
(* the arguments by their kind and type, the pattern by its text.          *)
(***************************************************************************)
Calls == DOMAIN pc
Done(w) == pc[w] = "done"
Succeeded(w) == Done(w) /\ outcome[w].kind = "Ok"

TextColumn(a) == a.kind = "Array" /\ a.type = "Utf8"
TextScalar(a) == a.kind = "Scalar" /\ a.type = "Utf8" /\ a.val.some
UnsignedScalar(a) == a.kind = "Scalar" /\ a.type = "UInt32" /\ a.val.some
Good0(a) == Len(a) >= 1 /\ TextColumn(a[1])
Good1(a) == Len(a) >= 2 /\ TextScalar(a[2])
Good2(a) == Len(a) >= 3 /\ UnsignedScalar(a[3])
(* The call reaches regexp_extract. *)
Entered(w) == Good0(args[w]) /\ Good1(args[w]) /\ Good2(args[w])

InputOf(w) == args[w][1].val
PatOf(w) == args[w][2].val.v
GroupOf(w) == args[w][3].val.v

(* Number of capture groups a pattern text declares. *)
CountGroups(p) == Cardinality({i \in 1..Len(p) : p[i] = "("})
Depth(p, n) ==
    Cardinality({i \in 1..n : p[i] = "("}) - Cardinality({i \in 1..n : p[i] = ")"})
(* The pattern text is a regular expression: parentheses balance and every
   repetition sign follows something to repeat. *)
WellFormed(p) ==
    /\ \A n \in 1..Len(p) : Depth(p, n) >= 0
    /\ Depth(p, Len(p)) = 0
    /\ \A i \in 1..Len(p) : p[i] \in {"?", "+"} => i > 1 /\ p[i - 1] # "("

(* The slots of the leftmost match of the call's pattern on its row i. *)
SlotsOf(w, i) == SearchFrom(RegexNew(PatOf(w)), InputOf(w)[i].v, 1)
Took(sl, k) == sl[2 * k + 1] # Unset /\ sl[2 * k + 2] # Unset
SpanText(t, sl, k) == SubSeq(t, sl[2 * k + 1], sl[2 * k + 2] - 1)
(* No match starts before position `start`. *)
Leftmost(w, i, start) ==
    \A st \in 1..(start - 1) :
        Exec(RegexNew(PatOf(w)).prog, InputOf(w)[i].v, 1, st,
             EmptySlots(CountGroups(PatOf(w))), {}) = NoMatch

----------------------------------------------------------------------------
(* C1: a successful call returns a column as long as the input column, and
   row i of it is null exactly when row i of the input is null. *)
C1_SameLengthSameNulls ==
    \A w \in Calls :
        Succeeded(w) =>
            /\ Len(outcome[w].v) = Len(InputOf(w))
            /\ \A i \in 1..Len(InputOf(w)) :
                   outcome[w].v[i].some <=> InputOf(w)[i].some

(* A finished call whose column has a null row, a row the pattern matches
   and a row it does not match. *)
C1_Witness ==
    \E w \in Calls :
        /\ Succeeded(w)
        /\ InputOf(w) = ColMixed
        /\ PatOf(w) = <<"1">>
        /\ outcome[w].v = <<Some(<<"1">>), None, Some(<<>>)>>

(* C2: every argument slice that is not a text column, a non-null text
   scalar and a non-null unsigned scalar, three in all, ends in an error
   value. *)
C2_ArgumentsValidated ==
    \A w \in Calls :
        Done(w) /\ ~(Len(args[w]) = 3 /\ Entered(w)) => outcome[w].kind = "Err"

(* C3: a pattern that is no regular expression ends the call in an error,
   no row is examined under it, and a call that reached regexp_extract ends
   either in a column of the input's length or in an error. *)
C3_CompileErrorBeforeRows ==
    \A w \in Calls :
        /\ pc[w] = "rows" => WellFormed(pattern[w])
        /\ Done(w) /\ Entered(w) /\ ~WellFormed(PatOf(w)) =>
               outcome[w].kind = "Err" /\ iter[w] = 0 /\ array[w] = <<>>
        /\ Done(w) /\ Entered(w) =>
               \/ outcome[w].kind = "Ok" /\ Len(outcome[w].v) = Len(InputOf(w))
               \/ outcome[w].kind = "Err" /\ ~WellFormed(PatOf(w))

(* A call with an invalid pattern and an empty column has ended in an
   error. *)
C3_Witness ==
    \E w \in Calls :
        /\ Done(w) /\ Entered(w)
        /\ ~WellFormed(PatOf(w))
        /\ InputOf(w) = ColEmpty
        /\ outcome[w].kind = "Err"

(* C4: a non-null row the pattern does not match yields the empty string,
   whatever the group index. *)
C4_NoMatchIsEmptyString ==
    \A w \in Calls :
        Succeeded(w) =>
            \A i \in 1..Len(InputOf(w)) :
                InputOf(w)[i].some /\ SlotsOf(w, i) = NoMatch =>
                    outcome[w].v[i] = Some(<<>>)

(* The pattern 1+ found no digit in the row "a", with a group index beyond
   the pattern's groups. *)
C4_Witness ==
    \E w \in Calls :
        /\ Succeeded(w)
        /\ InputOf(w) = ColOptional
        /\ PatOf(w) = <<"1", "+">>
        /\ GroupOf(w) = 99
        /\ SlotsOf(w, 2) = NoMatch
        /\ outcome[w].v[2] = Some(<<>>)

(* C5: on a non-null row the pattern matches, group 0 yields the text of
   the leftmost match and group k >= 1, when it took part, the text the k-th
   group captured. *)
C5_MatchedGroupText ==
    \A w \in Calls :
        Succeeded(w) =>
            \A i \in 1..Len(InputOf(w)) :
                InputOf(w)[i].some /\ SlotsOf(w, i) # NoMatch =>
                    LET sl == SlotsOf(w, i)
                        t == InputOf(w)[i].v
                        k == GroupOf(w)
                    IN /\ Leftmost(w, i, sl[1])
                       /\ k = 0 => outcome[w].v[i] = Some(SpanText(t, sl, 0))
                       /\ k >= 1 /\ k <= CountGroups(PatOf(w)) /\ Took(sl, k) =>
                              /\ outcome[w].v[i] = Some(SpanText(t, sl, k))
                              /\ sl[1] <= sl[2 * k + 1]
                              /\ sl[2 * k + 2] <= sl[2]

(* The test's scenario: letters then digits, group 2 gives the digits. *)
C5_Witness ==
    \E w \in Calls :
        /\ Succeeded(w)
        /\ InputOf(w) = ColBasic
        /\ PatOf(w) = PatLettersDigits
        /\ GroupOf(w) = 2
        /\ outcome[w].v = <<Some(<<"1", "1">>), Some(<<"1">>), None>>

(* C6: a group index above the number of groups of the pattern yields the
   empty string on every non-null row, matched or not. *)
C6_GroupOutOfRangeIsEmptyString ==
    \A w \in Calls :
        Succeeded(w) /\ GroupOf(w) > CountGroups(PatOf(w)) =>
            \A i \in 1..Len(InputOf(w)) :
                InputOf(w)[i].some => outcome[w].v[i] = Some(<<>>)

(* The pattern (a+) matched the row and group 2, one past its only group,
   gave the empty string. *)
C6_Witness ==
    \E w \in Calls :
        /\ Succeeded(w)
        /\ PatOf(w) = PatWord
        /\ GroupOf(w) = 2
        /\ InputOf(w) = <<Some(<<"a", "a", "a">>)>>
        /\ SlotsOf(w, 1) # NoMatch
        /\ outcome[w].v = <<Some(<<>>)>>

(* C7: when the pattern matches a non-null row and the group asked for is a
   group of the pattern that took no part in the match, the row yields the
   empty string, and each group that took part yields its text. *)
C7_MissingGroupIsEmptyString ==
    \A w \in Calls :
        Succeeded(w) =>
            \A i \in 1..Len(InputOf(w)) :
                LET k == GroupOf(w)
                    sl == SlotsOf(w, i)
                    ng == CountGroups(PatOf(w))
                IN InputOf(w)[i].some /\ sl # NoMatch /\ k >= 1 /\ k <= ng
                   /\ ~Took(sl, k) =>
                       /\ outcome[w].v[i] = Some(<<>>)
                       /\ \A j \in 0..ng :
                              Took(sl, j) =>
                                  ExtractRow(re[w], InputOf(w)[i], j)
                                      = Some(SpanText(InputOf(w)[i].v, sl, j))

(* The test's scenario: (a+)(1)?(a) on "aaa", group 2 took no part while
   group 1 captured "aa". *)
C7_Witness ==
    \E w \in Calls :
        /\ Succeeded(w)
        /\ PatOf(w) = PatMissingOptional
        /\ GroupOf(w) = 2
        /\ InputOf(w) = <<Some(<<"a", "a", "a">>)>>
        /\ outcome[w].v = <<Some(<<>>)>>
        /\ ExtractRow(re[w], InputOf(w)[1], 1) = Some(<<"a", "a">>)

(* C8: a second run with the same arguments ends as the first did. *)
C8_SameArgumentsSameOutcome ==
    \A w \in Calls :
        Done(w) /\ prev[w] # NoOutcome => outcome[w] = prev[w]

(* A second run has ended with a column of three rows. *)
C8_Witness ==
    \E w \in Calls :
        /\ Done(w)
        /\ prev[w] # NoOutcome
        /\ outcome[w].kind = "Ok"
        /\ Len(outcome[w].v) = 3

(* C9: whatever the interleaving of the calls' steps, each call ends as the
   function of its own arguments does. *)
C9_OutcomeAsWhenAlone ==
    \A w \in Calls : Done(w) => outcome[w] = fun(args[w])

(* One call has ended with a column while the other, with other arguments,
   is between two rows. *)
C9_Witness ==
    /\ Calls = {1, 2}
    /\ args[1] # args[2]
    /\ Succeeded(2)
    /\ Len(outcome[2].v) = 3
    /\ pc[1] = "rows"
    /\ iter[1] > 0
    /\ iter[1] < Len(input[1])

(* C10: the error of a call is the one of its lowest invalid position, and
   the pattern is compiled only after the three positions passed. *)
C10_LowestInvalidPositionFirst ==
    \A w \in Calls :
        LET a == args[w] IN
        /\ pc[w] = "arg1" => Good0(a)
        /\ pc[w] = "arg2" => Good0(a) /\ Good1(a)
        /\ pc[w] \in {"compile", "rows"} => Good0(a) /\ Good1(a) /\ Good2(a)
        /\ Done(w) /\ Len(a) >= 1 /\ ~Good0(a) =>
               outcome[w] = Err("Expected StringArray")
        /\ Done(w) /\ Len(a) >= 2 /\ Good0(a) /\ ~Good1(a) =>
               outcome[w] = Err("Expected pattern string")
        /\ Done(w) /\ Len(a) >= 3 /\ Good0(a) /\ Good1(a) /\ ~Good2(a) =>
               outcome[w] = Err("Expected UInt32")
        /\ Done(w) /\ outcome[w].kind = "Err"
           /\ outcome[w].v \notin {"Expected StringArray", "Expected pattern string",
                                   "Expected UInt32"} =>
               Entered(w) /\ ~WellFormed(PatOf(w))

(* All three positions are invalid and the error is that of position 0. *)
C10_Witness ==
    \E w \in Calls :
        /\ Done(w)
        /\ Len(args[w]) = 3
        /\ ~TextColumn(args[w][1])
        /\ ~TextScalar(args[w][2])
        /\ ~UnsignedScalar(args[w][3])
        /\ outcome[w] = Err("Expected StringArray")

====
